---- MODULE Spec2Model ----
(***************************************************************************)
(* The AI itinerary generation state machine of utils/ai_graph.py:         *)
(* generate_travel_plan -> validate_travel_plan -> should_retry, driven by *)
(* the compiled graph of create_travel_plan_graph and invoked by the       *)
(* /plan operation of controllers/ai_controller.py; then                   *)
(* regenerate_travel_plan_day of the same module, and the role checks of   *)
(* models/role_permissions.py and dependencies/role_checker.py.            *)
(*                                                                         *)
(* Python dicts are functions over the keys that are present               *)
(* ("k" \in DOMAIN d is Python's "k" in d).  A list value is a record      *)
(* [kind, items]: kind "list" is a Python list, "mockref" is a reference   *)
(* to the one list object MOCK_TRAVEL_PLAN["days"], "empty" is an empty    *)
(* iterable that is not a list ("" or {}), "bad" is a value whose          *)
(* iteration or whose elements make the normalizer raise TypeError.        *)
(* A time string is the sequence of its ":"-separated parts; a part is     *)
(* [num, v]: num says whether int() accepts it, v is the integer.          *)
(***************************************************************************)
EXTENDS Integers, Sequences, FiniteSets, TLC

\* the retry cap of should_retry and of generate_travel_plan
MaxRetries == 3
\* largest requested duration, and largest number of days in a response
MaxDuration == 3
\* generate passes explored per run (the loop itself has no such bound)
MaxSteps == 5

\* env         settings.env, fixed when the process starts
\* mockDays    the content of the list object MOCK_TRAVEL_PLAN["days"]
\* pc          where the current run is: "idle" (none), "generate", "validate",
\*             "route" (the conditional edge), "done" (the graph reached END)
\* state       the TravelPlanState the graph threads through its nodes
\* genSteps    generate_plan executions of the current run
\* valSteps    validate_plan executions of the current run
\* modelCalls  llm.invoke calls of the current run
\* raisedCalls those of them on which the generate step raised
\* lastResp    what the last llm.invoke call produced
\* handed      the plan of the last successful response, still held by its caller
VARIABLES env, mockDays, pc, state, genSteps, valSteps, modelCalls,
          raisedCalls, lastResp, handed

\* rplan       the plan dict a caller of regenerate_travel_plan_day holds, as
\*             it is now (its "days" list is one object, shared by copies)
\* rbefore     that plan as it was when the last call was made
\* rret        the plan the last call returned
\* rargs       the last call: its day_number and the Model Client's answer
\* rfailed     whether the last call went through its except branch
\* rcalls      calls made so far on this plan
VARIABLES rplan, rbefore, rret, rargs, rfailed, rcalls

\* role        current_user.role
\* planCount   travel plans the user holds
\* asked       the feature has_feature was last asked about, "" before that
\* granted     its answer
VARIABLES role, planCount, asked, granted

\* request     the input_data of the last /plan request
\* reply       what ai_plan answered to it; status 0 while there is no answer
VARIABLES request, reply

graphVars == <<env, mockDays, pc, state, genSteps, valSteps, modelCalls,
               raisedCalls, lastResp, handed>>
regenVars == <<rplan, rbefore, rret, rargs, rfailed, rcalls>>
accessVars == <<role, planCount, asked, granted>>
apiVars == <<request, reply>>

vars == <<graphVars, regenVars, accessVars, apiVars>>

(***************************************************************************)
(* Values                                                                  *)
(***************************************************************************)
EmptyDict == [k \in {} |-> 0]

List(items) == [kind |-> "list", items |-> items]
MockRef == [kind |-> "mockref", items |-> <<>>]
EmptyNonList == [kind |-> "empty", items |-> <<>>]
BadIterable == [kind |-> "bad", items |-> <<>>]

Del(d, k) == [f \in DOMAIN d \ {k} |-> d[f]]
Put(d, k, v) == [f \in DOMAIN d \cup {k} |-> IF f = k THEN v ELSE d[f]]

Num(n) == [num |-> TRUE, v |-> n]
Word == [num |-> FALSE, v |-> 0]
Time(h, m) == <<Num(h), Num(m)>>

Str(n) ==
    CASE n = 0 -> "0" [] n = 1 -> "1" [] n = 2 -> "2" [] n = 3 -> "3"
      [] n = 4 -> "4" [] n = 5 -> "5" [] n = 6 -> "6" [] n = 7 -> "7"
      [] n = 8 -> "8" [] n = 9 -> "9" [] OTHER -> "n"

Destinations == {"Kyoto, Japan"}
Interests == {"temples and food"}
Durations == 1..MaxDuration
Envs == {"development", "test", "production"}

TripTitle(st) == "Trip to " \o st.destination
TripRemarks(st) ==
    "A " \o Str(st.duration) \o "-day trip to " \o st.destination
        \o " focusing on " \o st.interests
DefaultTips == <<"Pack appropriate clothing for the weather",
                 "Research local customs before your trip">>

(***************************************************************************)
(* MOCK_TRAVEL_PLAN: the module-level fallback data.  Its "days" list is   *)
(* one mutable object, held in the variable mockDays.                      *)
(***************************************************************************)
MockActivity(loc, act, tips, s, e) ==
    [location |-> loc, activity |-> act, tips |-> tips, start_at |-> s, end_at |-> e]

MOCK_DAYS ==
    << [day_number |-> 1,
        description |-> "Exploring iconic landmarks",
        reminder |-> "Wear comfortable shoes for walking",
        activities |-> List(<<
            MockActivity("Eiffel Tower", "Visit the iconic Eiffel Tower",
                         "Go early to avoid crowds", Time(9, 0), Time(11, 0)),
            MockActivity("Louvre Museum", "Explore the world-famous Louvre Museum",
                         "Don't miss the Mona Lisa", Time(12, 0), Time(14, 0)) >>)],
       [day_number |-> 2,
        description |-> "Historical sites and local culture",
        reminder |-> "Check for opening hours",
        activities |-> List(<<
            MockActivity("Notre Dame Cathedral", "Visit the historic Notre Dame Cathedral",
                         "Check for ongoing restoration work", Time(10, 0), Time(12, 0)) >>)] >>

MOCK_TRAVEL_PLAN ==
    [title |-> "Cultural Tour of Paris",
     destination |-> "Paris, France",
     remarks |-> "A 3-day cultural tour of Paris, exploring famous landmarks and museums",
     days |-> MockRef,
     tips |-> <<"Use the metro to get around", "Learn a few French phrases">>]

\* the list a plan's "days" denotes, given the current content of the shared list
DaysOf(plan, mock) ==
    IF plan.days.kind = "mockref" THEN mock ELSE plan.days.items

\* a plan as its holder reads it: the days list dereferenced
View(plan, mock) ==
    IF "days" \in DOMAIN plan /\ plan.days.kind = "mockref"
    THEN [plan EXCEPT !.days = List(mock)]
    ELSE plan

(***************************************************************************)
(* The fallback of generate_travel_plan: a shallow copy of                 *)
(* MOCK_TRAVEL_PLAN, padded through the shared list, trimmed into a new    *)
(* list, renumbered through the shared day dicts.                          *)
(***************************************************************************)
NewDay(n) ==
    [day_number |-> n,
     description |-> "Day " \o Str(n) \o " exploration",
     reminder |-> "Check local weather forecast",
     activities |-> List(<<
         MockActivity("Local attraction", "Explore local attractions",
                      "Ask locals for recommendations", Time(10, 0), Time(12, 0)) >>)]

\* while len(days) < duration: days.append(new_day), new_day numbered len + 1
PadDays(days, duration) ==
    days \o [k \in 1..(duration - Len(days)) |-> NewDay(Len(days) + k)]

\* the fallback without its trimming step
TrimDays_Omitted(days, duration) == days

TrimDays(days, duration) == SubSeq(days, 1, duration)

Renumber(days) == [i \in 1..Len(days) |-> [days[i] EXCEPT !.day_number = i]]

\* [plan, mock]: the plan returned and the shared list afterwards
FallbackPlan(st, mock) ==
    LET padded == PadDays(mock, st.duration)
        trim == Len(padded) > st.duration
        own == IF trim THEN TrimDays(padded, st.duration) ELSE padded
        numbered == Renumber(own)
        copy == [MOCK_TRAVEL_PLAN EXCEPT !.title = TripTitle(st),
                                         !.destination = st.destination,
                                         !.remarks = TripRemarks(st)]
    IN  [plan |-> [copy EXCEPT !.days = IF trim THEN List(numbered) ELSE MockRef],
         mock |-> [i \in 1..Len(padded) |->
                      IF i <= Len(numbered) THEN numbered[i] ELSE padded[i]]]

(***************************************************************************)
(* The field-filling part of generate_travel_plan.                         *)
(***************************************************************************)
\* a fill-in that leaves the legacy 'time' key in the activity
NormalizeActivity_KeepsTime(a) ==
    IF "start_at" \notin DOMAIN a \/ "end_at" \notin DOMAIN a
    THEN IF "time" \in DOMAIN a /\ Len(a.time) = 2
         THEN Put(Put(a, "start_at", a.time[1]), "end_at", a.time[2])
         ELSE Put(Put(a, "start_at", Time(9, 0)), "end_at", Time(11, 0))
    ELSE a

\* a fill-in that writes the times whether or not the activity has them
NormalizeActivity_Overwrites(a) ==
    Del(IF "time" \in DOMAIN a /\ Len(a.time) = 2
        THEN Put(Put(a, "start_at", a.time[1]), "end_at", a.time[2])
        ELSE Put(Put(a, "start_at", Time(9, 0)), "end_at", Time(11, 0)),
        "time")

NormalizeActivity(a) ==
    LET filled ==
            IF "start_at" \notin DOMAIN a \/ "end_at" \notin DOMAIN a
            THEN IF "time" \in DOMAIN a /\ Len(a.time) = 2
                 THEN Put(Put(a, "start_at", a.time[1]), "end_at", a.time[2])
                 ELSE Put(Put(a, "start_at", Time(9, 0)), "end_at", Time(11, 0))
            ELSE a
    IN  Del(filled, "time")

\* list.index(day) + 1: the 1-based position of the first element equal to day
IndexOf(days, day) ==
    CHOOSE j \in 1..Len(days) :
        days[j] = day /\ \A k \in 1..(j - 1) : days[k] # day

DayDefault(days, i, field) ==
    CASE field = "day_number" -> IndexOf(days, days[i])
      [] field = "description" ->
             "Day " \o Str(IF "day_number" \in DOMAIN days[i]
                           THEN days[i].day_number ELSE IndexOf(days, days[i]))
                    \o " exploration"
      [] field = "reminder" -> "Check local weather forecast"

\* the loop body for the day at position i of the list as it is at that point
NormalizeDay(days, i) ==
    [f \in DOMAIN days[i] \cup {"day_number", "description", "reminder"} |->
        IF f \notin DOMAIN days[i] THEN DayDefault(days, i, f)
        ELSE IF f = "activities" /\ days[i].activities.kind = "list"
        THEN [days[i].activities EXCEPT !.items =
                 [k \in 1..Len(@) |-> NormalizeActivity(@[k])]]
        ELSE days[i][f]]

\* the loop over plan["days"]: day i is filled in a list whose earlier days
\* are filled already (d is that list)
RECURSIVE NormalizeDays(_, _)
NormalizeDays(days, i) ==
    IF i > Len(days) THEN days
    ELSE CHOOSE r \in {NormalizeDays([d EXCEPT ![i] = NormalizeDay(d, i)], i + 1) :
                          d \in {days}} : TRUE

\* iterating plan["days"] and each day's activities raises TypeError
NormalizeRaises(plan) ==
    \/ plan.days.kind = "bad"
    \/ /\ plan.days.kind = "list"
       /\ \E i \in 1..Len(plan.days.items) :
              /\ "activities" \in DOMAIN plan.days.items[i]
              /\ plan.days.items[i].activities.kind = "bad"

PlanDefault(st, field) ==
    CASE field = "title" -> TripTitle(st)
      [] field = "destination" -> st.destination
      [] field = "remarks" -> TripRemarks(st)
      [] field = "tips" -> DefaultTips

\* a generate step that hands the parsed plan on as it came
NormalizePlan_Omitted(plan, st) == plan

NormalizePlan(plan, st) ==
    [f \in DOMAIN plan \cup {"title", "destination", "remarks", "tips"} |->
        IF f \notin DOMAIN plan THEN PlanDefault(st, f)
        ELSE IF f = "days" /\ plan.days.kind = "list"
        THEN [plan.days EXCEPT !.items = NormalizeDays(@, 1)]
        ELSE plan[f]]

(***************************************************************************)
(* validate_travel_plan.  The time correction writes into the activity     *)
(* dicts in place, so corrections made before a raise stay in the plan.    *)
(***************************************************************************)
RequiredFields == <<"title", "destination", "remarks", "days", "tips">>
RequiredDayFields == <<"day_number", "description", "reminder", "activities">>
RequiredActivityFields == <<"location", "activity", "tips", "start_at", "end_at">>

\* the first field of the list that the dict lacks, "" when it has them all
FirstMissing(d, fields) ==
    LET miss == {i \in 1..Len(fields) : fields[i] \notin DOMAIN d}
    IN  IF miss = {} THEN ""
        ELSE fields[CHOOSE i \in miss : \A j \in miss : i <= j]

\* hour, minute = time_str.split(":") and the range test on int(hour), int(minute)
ParsesAsTime(t) ==
    /\ Len(t) = 2
    /\ t[1].num /\ t[2].num
    /\ 0 <= t[1].v /\ t[1].v <= 23
    /\ 0 <= t[2].v /\ t[2].v <= 59

\* a correction that repairs start_at and leaves end_at as it came
FixTimes_StartOnly(a) ==
    [a EXCEPT !.start_at = IF ParsesAsTime(@) THEN @ ELSE Time(9, 0)]

\* a correction that resets both times as soon as start_at does not parse
FixTimes_DefaultPair(a) ==
    IF ParsesAsTime(a.start_at)
    THEN [a EXCEPT !.end_at = IF ParsesAsTime(@) THEN @ ELSE Time(11, 0)]
    ELSE [a EXCEPT !.start_at = Time(9, 0), !.end_at = Time(11, 0)]

FixTimes(a) ==
    [a EXCEPT !.start_at = IF ParsesAsTime(@) THEN @ ELSE Time(9, 0),
              !.end_at = IF ParsesAsTime(@) THEN @ ELSE Time(11, 0)]

\* the position of the first activity that lacks a required field, 0 if none
FirstBadActivity(acts) ==
    LET bad == {k \in 1..Len(acts) : FirstMissing(acts[k], RequiredActivityFields) # ""}
    IN  IF bad = {} THEN 0 ELSE CHOOSE k \in bad : \A j \in bad : k <= j

\* the loop over a day's activities: it stops at the first missing field, with
\* the activities before it corrected
ValidateActivities(acts) ==
    LET k0 == FirstBadActivity(acts)
    IN  [items |-> [k \in 1..Len(acts) |->
                      IF k0 = 0 \/ k < k0 THEN FixTimes(acts[k]) ELSE acts[k]],
         err |-> IF k0 = 0 THEN ""
                 ELSE "Activity is missing required field: "
                          \o FirstMissing(acts[k0], RequiredActivityFields)]

\* a day check that does not look into the activities
DayError_SkipsActivities(day) ==
    IF FirstMissing(day, RequiredDayFields) # ""
    THEN "Day is missing required field: " \o FirstMissing(day, RequiredDayFields)
    ELSE IF day.activities.kind # "list" THEN "Activities must be a list"
    ELSE ""

\* what the loop body raises on a day, "" if it raises nothing
DayError(day) ==
    IF FirstMissing(day, RequiredDayFields) # ""
    THEN "Day is missing required field: " \o FirstMissing(day, RequiredDayFields)
    ELSE IF day.activities.kind # "list" THEN "Activities must be a list"
    ELSE ValidateActivities(day.activities.items).err

\* the day after the loop body ran on it, to its end or to its raise
CheckedDay(day) ==
    IF FirstMissing(day, RequiredDayFields) # "" \/ day.activities.kind # "list"
    THEN day
    ELSE [day EXCEPT !.activities.items = ValidateActivities(@).items]

FirstBadDay(days) ==
    LET bad == {i \in 1..Len(days) : DayError(days[i]) # ""}
    IN  IF bad = {} THEN 0 ELSE CHOOSE i \in bad : \A j \in bad : i <= j

\* the loop over the days: it stops at the first day that raises; the days
\* up to and including that one have been worked on
ValidateDays(days) ==
    LET i0 == FirstBadDay(days)
    IN  [items |-> [i \in 1..Len(days) |->
                      IF i0 = 0 \/ i <= i0 THEN CheckedDay(days[i]) ELSE days[i]],
         err |-> IF i0 = 0 THEN "" ELSE DayError(days[i0])]

\* a validator that checks the plan's own fields and leaves the days unchecked
validate_travel_plan_TopLevelOnly(st, mock) ==
    IF st.error # "" THEN [state |-> st, mock |-> mock]
    ELSE [state |-> [st EXCEPT !.error =
                        IF FirstMissing(st.plan, RequiredFields) # ""
                        THEN "Travel plan is missing required field: "
                                 \o FirstMissing(st.plan, RequiredFields)
                        ELSE ""],
          mock |-> mock]

\* [state, mock]: the state returned and the shared list afterwards
validate_travel_plan(st, mock) ==
    IF st.error # "" THEN [state |-> st, mock |-> mock]
    ELSE LET plan == st.plan
             m == FirstMissing(plan, RequiredFields)
         IN  IF m # ""
             THEN [state |-> [st EXCEPT !.error =
                                 "Travel plan is missing required field: " \o m],
                   mock |-> mock]
             ELSE IF plan.days.kind \notin {"list", "mockref"}
                     \/ Len(DaysOf(plan, mock)) = 0
             THEN [state |-> [st EXCEPT !.error =
                                 "Travel plan days must be a non-empty list"],
                   mock |-> mock]
             ELSE LET r == ValidateDays(DaysOf(plan, mock))
                  IN  IF plan.days.kind = "mockref"
                      THEN [state |-> [st EXCEPT !.error = r.err], mock |-> r.items]
                      ELSE [state |-> [st EXCEPT !.error = r.err,
                                                 !.plan.days.items = r.items],
                            mock |-> mock]

(***************************************************************************)
(* generate_travel_plan.  A Model Client response is [kind, msg, plan]:    *)
(* "raise" (llm.invoke raises, str(e) = msg), "text" (json.loads raises),  *)
(* "nondict" (JSON that is no object), "dict" (a JSON object, plan).       *)
(***************************************************************************)
\* the message of the exception the try block raises on resp, "none" if it returns
RaisedBy(resp) ==
    CASE resp.kind = "raise" -> resp.msg
      [] resp.kind = "text" -> "Expecting value: line 1 column 1 (char 0)"
      [] resp.kind = "nondict" -> "Response missing required structure"
      [] resp.kind = "dict" /\ "days" \notin DOMAIN resp.plan ->
             "Response missing required structure"
      [] resp.kind = "dict" /\ "days" \in DOMAIN resp.plan /\ NormalizeRaises(resp.plan) ->
             "'str' object does not support item assignment"
      [] OTHER -> "none"

MakeState(st, plan, error, retry_count) ==
    [destination |-> st.destination, duration |-> st.duration,
     interests |-> st.interests, start_date |-> st.start_date,
     plan |-> plan, error |-> error, retry_count |-> retry_count]

\* an except branch that forgets to count the retry
OnException_NoIncrement(st, msg, mock, e) ==
    [state |-> MakeState(st, EmptyDict, msg, st.retry_count),
     mock |-> mock, called |-> TRUE]

\* an except branch that falls back at the cap whatever settings.env is
OnException_IgnoreEnv(st, msg, mock, e) ==
    IF st.retry_count + 1 >= MaxRetries
    THEN [state |-> MakeState(st, FallbackPlan(st, mock).plan, "", st.retry_count + 1),
          mock |-> FallbackPlan(st, mock).mock, called |-> TRUE]
    ELSE [state |-> MakeState(st, EmptyDict, msg, st.retry_count + 1),
          mock |-> mock, called |-> TRUE]

\* an except branch that counts the failed attempt twice
OnException_DoubleCount(st, msg, mock, e) ==
    [state |-> MakeState(st, EmptyDict, msg, st.retry_count + 2),
     mock |-> mock, called |-> TRUE]

\* an except branch that leaves the plan of the attempt before in the state
OnException_KeepsPlan(st, msg, mock, e) ==
    [state |-> MakeState(st, st.plan, msg, st.retry_count + 1),
     mock |-> mock, called |-> TRUE]

\* the except branch
OnException(st, msg, mock, e) ==
    LET retry_count == st.retry_count + 1
    IN  IF retry_count >= MaxRetries /\ e = "test"
        THEN LET f == FallbackPlan(st, mock)
             IN  [state |-> MakeState(st, f.plan, "", retry_count),
                  mock |-> f.mock, called |-> TRUE]
        ELSE [state |-> MakeState(st, EmptyDict, msg, retry_count),
              mock |-> mock, called |-> TRUE]

\* the branch taken when the step is entered at the cap: no Model Client call
AtCap(st, mock, e) ==
    IF e = "test"
    THEN LET f == FallbackPlan(st, mock)
         IN  [state |-> MakeState(st, f.plan, "", st.retry_count),
              mock |-> f.mock, called |-> FALSE]
    ELSE [state |-> [st EXCEPT !.error = "Failed after " \o Str(st.retry_count)
                                  \o " retries. Last error: " \o st.error],
          mock |-> mock, called |-> FALSE]

\* [state, mock, called]: called says whether llm.invoke was reached
generate_travel_plan(st, resp, mock, e) ==
    IF st.retry_count >= MaxRetries THEN AtCap(st, mock, e)
    ELSE IF RaisedBy(resp) # "none" THEN OnException(st, RaisedBy(resp), mock, e)
    ELSE [state |-> MakeState(st, NormalizePlan(resp.plan, st), "", st.retry_count),
          mock |-> mock, called |-> TRUE]

\* a routing function that gives up one retry early
should_retry_CapOneEarly(st) ==
    IF st.error = "" THEN "end"
    ELSE IF st.retry_count >= MaxRetries - 1 THEN "max_retries"
    ELSE "retry"

\* a routing function that ends the run on any error
should_retry_GivesUpOnError(st) ==
    IF st.error = "" THEN "end" ELSE "max_retries"

\* a routing function whose cap test is > instead of >=
should_retry_StrictCap(st) ==
    IF st.error = "" THEN "end"
    ELSE IF st.retry_count > MaxRetries THEN "max_retries"
    ELSE "retry"

should_retry(st) ==
    IF st.error = "" THEN "end"
    ELSE IF st.retry_count >= MaxRetries THEN "max_retries"
    ELSE "retry"

\* edges that send 'max_retries' back to the generate step
Edge_CapGoesBack(label) == IF label = "end" THEN "done" ELSE "generate"

\* the conditional edges of create_travel_plan_graph
Edge(label) == IF label = "retry" THEN "generate" ELSE "done"

(***************************************************************************)
(* What the Model Client may answer.                                       *)
(***************************************************************************)
FullActivity ==
    [location |-> "Kinkaku-ji", activity |-> "Visit the Golden Pavilion",
     tips |-> "Go early", start_at |-> Time(9, 0), end_at |-> Time(10, 30)]
LegacyActivity ==
    [location |-> "Nishiki Market", activity |-> "Street food lunch",
     tips |-> "Bring cash", time |-> <<Time(12, 0), Time(14, 0)>>]
BadTimeActivity ==
    [location |-> "Gion", activity |-> "Evening walk",
     tips |-> "Be quiet", start_at |-> Time(25, 99), end_at |-> <<Word>>]
NoLocationActivity ==
    [activity |-> "Tea ceremony", tips |-> "Book ahead",
     start_at |-> Time(15, 0), end_at |-> Time(16, 0)]

FullDay(n) ==
    [day_number |-> n, description |-> "Temples", reminder |-> "Carry water",
     activities |-> List(<<FullActivity>>)]
BareDay == [activities |-> List(<<LegacyActivity>>)]
BadTimeDay == [day_number |-> 1, activities |-> List(<<BadTimeActivity>>)]
DayNoActivities == [day_number |-> 1, description |-> "Free day"]
DayNoLocation == [day_number |-> 1, activities |-> List(<<FullActivity, NoLocationActivity>>)]

FullPlan(k) ==
    [title |-> "Kyoto temples", destination |-> "Kyoto", remarks |-> "A short trip",
     days |-> List([i \in 1..k |-> FullDay(i)]), tips |-> <<"Buy a bus pass">>]
BarePlan(k) == [days |-> List([i \in 1..k |-> BareDay])]
\* a complete one-day plan whose only day carries day_number 2
MisnumberedPlan == [FullPlan(1) EXCEPT !.days = List(<<FullDay(2)>>)]

Raise(msg) == [kind |-> "raise", msg |-> msg, plan |-> EmptyDict]
Json(plan) == [kind |-> "dict", msg |-> "", plan |-> plan]

\* responses on which the generate step raises
RaisingResponses ==
    { Raise("Connection timed out"), Raise(""),
      [kind |-> "text", msg |-> "", plan |-> EmptyDict],
      [kind |-> "nondict", msg |-> "", plan |-> EmptyDict],
      Json([title |-> "No itinerary"]),
      Json([days |-> BadIterable]) }

\* responses the generate step accepts and the validate step rejects
InvalidResponses ==
    { Json([days |-> List(<<>>)]),
      Json([days |-> EmptyNonList]),
      Json([days |-> List(<<DayNoActivities>>)]),
      Json([days |-> List(<<DayNoLocation>>)]) }

\* responses that carry a plan with every required field after normalization
WellFormedResponses ==
    { Json(FullPlan(k)) : k \in 1..MaxDuration }
        \cup { Json(BarePlan(k)) : k \in 1..MaxDuration }
        \cup { Json([days |-> List(<<BadTimeDay>>)]), Json(MisnumberedPlan) }

Responses == RaisingResponses \cup InvalidResponses \cup WellFormedResponses

NoResponse == [kind |-> "none", msg |-> "", plan |-> EmptyDict]

(***************************************************************************)
(* The machine: one run at a time (ai_plan invokes the graph               *)
(* synchronously), any number of runs one after the other.                 *)
(***************************************************************************)
InitialState(destination, duration, interests) ==
    [destination |-> destination, duration |-> duration, interests |-> interests,
     start_date |-> "", plan |-> EmptyDict, error |-> "", retry_count |-> 0]

\* no regenerate_travel_plan_day call is under way
RegenIdle ==
    /\ rplan = EmptyDict
    /\ rbefore = EmptyDict
    /\ rret = EmptyDict
    /\ rargs = [day_number |-> 0, resp |-> NoResponse]
    /\ rfailed = FALSE
    /\ rcalls = 0

\* no user is being checked
AccessIdle ==
    /\ role = ""
    /\ planCount = 0
    /\ asked = ""
    /\ granted = FALSE

NoRequest == [destination |-> "", duration |-> 0, interests |-> ""]
NoReply == [status |-> 0, destination |-> "", duration |-> 0, plan |-> EmptyDict]

\* no /plan request has been made
ApiIdle ==
    /\ request = NoRequest
    /\ reply = NoReply

Init ==
    /\ env \in Envs
    /\ mockDays = MOCK_DAYS
    /\ pc = "idle"
    /\ state = InitialState("", 1, "")
    /\ genSteps = 0
    /\ valSteps = 0
    /\ modelCalls = 0
    /\ raisedCalls = 0
    /\ lastResp = NoResponse
    /\ handed = EmptyDict
    /\ RegenIdle
    /\ AccessIdle
    /\ ApiIdle

\* ai_plan builds the initial state and invokes the graph at its entry point
StartRun ==
    /\ pc = "idle"
    /\ env # "development"
    /\ \E destination \in Destinations, duration \in Durations, interests \in Interests :
           /\ request' = [destination |-> destination, duration |-> duration,
                          interests |-> interests]
           /\ state' = InitialState(destination, duration, interests)
    /\ reply' = NoReply
    /\ pc' = "generate"
    /\ genSteps' = 0
    /\ valSteps' = 0
    /\ modelCalls' = 0
    /\ raisedCalls' = 0
    /\ lastResp' = NoResponse
    /\ UNCHANGED <<env, mockDays, handed>>
    /\ UNCHANGED <<regenVars, accessVars>>

\* node generate_plan on a response drawn from R, then the edge to validate_plan
GenerateFrom(R) ==
    /\ pc = "generate"
    /\ genSteps < MaxSteps
    /\ \E resp \in R :
           LET r == generate_travel_plan(state, resp, mockDays, env)
           IN  /\ state' = r.state
               /\ mockDays' = r.mock
               /\ modelCalls' = IF r.called THEN modelCalls + 1 ELSE modelCalls
               /\ raisedCalls' = IF r.called /\ resp \in RaisingResponses
                                 THEN raisedCalls + 1 ELSE raisedCalls
               /\ lastResp' = IF r.called THEN resp ELSE lastResp
    /\ genSteps' = genSteps + 1
    /\ pc' = "validate"
    /\ UNCHANGED <<env, valSteps, handed>>
    /\ UNCHANGED <<regenVars, accessVars, apiVars>>

Generate == GenerateFrom(Responses)

\* node validate_plan
Validate ==
    /\ pc = "validate"
    /\ LET r == validate_travel_plan(state, mockDays)
       IN  /\ state' = r.state
           /\ mockDays' = r.mock
    /\ valSteps' = valSteps + 1
    /\ pc' = "route"
    /\ UNCHANGED <<env, genSteps, modelCalls, raisedCalls, lastResp, handed>>
    /\ UNCHANGED <<regenVars, accessVars, apiVars>>

\* the conditional edge out of validate_plan
Route ==
    /\ pc = "route"
    /\ pc' = Edge(should_retry(state))
    /\ UNCHANGED <<env, mockDays, state, genSteps, valSteps, modelCalls,
                   raisedCalls, lastResp, handed>>
    /\ UNCHANGED <<regenVars, accessVars, apiVars>>

\* ai_plan after invoke: an error is raised (HTTP 500), a plan is put in the
\* response with the request's destination and duration
Return ==
    /\ pc = "done"
    /\ handed' = IF state.error # "" THEN handed ELSE state.plan
    /\ reply' = IF state.error # "" THEN [NoReply EXCEPT !.status = 500]
                 ELSE [status |-> 200, destination |-> request.destination,
                       duration |-> request.duration, plan |-> state.plan]
    /\ pc' = "idle"
    /\ UNCHANGED <<env, mockDays, state, genSteps, valSteps, modelCalls,
                   raisedCalls, lastResp, request>>
    /\ UNCHANGED <<regenVars, accessVars>>

\* the plan of the canned response of ai_plan
DevMockPlan ==
    [title |-> "Tokyo Food and Culture Tour", destination |-> "Tokyo, Japan",
     remarks |-> "A 3-day culinary journey through Tokyo",
     days |-> List(<<[day_number |-> 1,
                      description |-> "Exploring Tokyo's famous food markets",
                      reminder |-> "Bring cash",
                      activities |-> List(<<[location |-> "Tsukiji Fish Market",
                                             activity |-> "Sushi breakfast",
                                             tips |-> "Watch for special dishes",
                                             start_at |-> Time(18, 0),
                                             end_at |-> Time(20, 0)]>>)]>>),
     tips |-> <<"Always carry cash", "Be adventurous">>]

\* ai_plan with settings.env == "development": the canned response is
\* returned at once, the graph is not invoked
DevelopmentReply ==
    /\ pc = "idle"
    /\ env = "development"
    /\ \E destination \in Destinations, duration \in Durations, interests \in Interests :
           request' = [destination |-> destination, duration |-> duration,
                       interests |-> interests]
    /\ reply' = [status |-> 200, destination |-> "Tokyo,Japan", duration |-> 3,
                 plan |-> DevMockPlan]
    /\ UNCHANGED <<graphVars, regenVars, accessVars>>

Next == StartRun \/ DevelopmentReply \/ Generate \/ Validate \/ Route \/ Return

Spec == Init /\ [][Next]_vars

(***************************************************************************)
(* The two graph nodes taken one at a time: generate_travel_plan on any    *)
(* response of a wider catalogue, validate_travel_plan on any state a      *)
(* caller may pass it.                                                     *)
(***************************************************************************)
SetOf(seq) == {seq[i] : i \in 1..Len(seq)}

\* "09:30", "25:99", "morning", "9"
UnitTimes == {Time(9, 30), Time(25, 99), <<Word>>, <<Num(9)>>}

UnitActivities ==
    {FullActivity, LegacyActivity, BadTimeActivity, NoLocationActivity}
        \cup {[FullActivity EXCEPT !.start_at = s, !.end_at = e] : s, e \in UnitTimes}
        \cup {Del(FullActivity, f) : f \in SetOf(RequiredActivityFields)}
        \cup {Put(Del(FullActivity, f), "time", t) :
                 f \in {"start_at", "end_at"},
                 t \in {<<Time(12, 0), Time(14, 0)>>, <<Time(12, 0)>>}}

UnitDays ==
    {[FullDay(1) EXCEPT !.activities = List(<<a>>)] : a \in UnitActivities}
        \cup {[FullDay(1) EXCEPT !.activities = List(<<BadTimeActivity, a>>)] :
                 a \in UnitActivities}
        \cup {Del(FullDay(1), f) : f \in SetOf(RequiredDayFields)}
        \cup {BareDay, [FullDay(1) EXCEPT !.activities = EmptyNonList],
                [FullDay(1) EXCEPT !.activities = List(<<>>)]}

UnitPlans ==
    {[FullPlan(1) EXCEPT !.days = List(<<d>>)] : d \in UnitDays}
        \cup {[FullPlan(1) EXCEPT !.days = List(<<FullDay(1), d>>)] : d \in UnitDays}
        \cup {[days |-> List(<<d>>)] : d \in UnitDays}
        \cup {Del(FullPlan(1), f) : f \in SetOf(RequiredFields)}
        \cup {[FullPlan(1) EXCEPT !.days = EmptyNonList],
                [FullPlan(1) EXCEPT !.days = List(<<>>)], BarePlan(2)}

UnitResponses == RaisingResponses \cup {Json(plan) : plan \in UnitPlans}

\* the state a node is called with: any plan, any error, any retry_count
UnitStates ==
    {MakeState(InitialState(destination, duration, interests), plan, error, n) :
        destination \in Destinations, duration \in {1}, interests \in Interests,
        plan \in UnitPlans \cup {EmptyDict},
        error \in {"", "Connection timed out"}, n \in 0..MaxRetries}

UnitInit ==
    /\ env \in Envs
    /\ mockDays = MOCK_DAYS
    /\ pc \in {"generate", "validate"}
    /\ state \in UnitStates
    /\ pc = "generate" => state.plan \in {EmptyDict, Del(FullPlan(1), "tips")}
    /\ genSteps = 0
    /\ valSteps = 0
    /\ modelCalls = 0
    /\ raisedCalls = 0
    /\ lastResp = NoResponse
    /\ handed = EmptyDict
    /\ RegenIdle
    /\ AccessIdle
    /\ ApiIdle

UnitGenerate == genSteps = 0 /\ GenerateFrom(UnitResponses)

UnitNext == UnitGenerate \/ Validate

UnitSpec == UnitInit /\ [][UnitNext]_vars

(***************************************************************************)
(* regenerate_travel_plan_day.  The Model Client's answer is               *)
(* [kind, msg, day, number]: kind as for a plan response, day the parsed   *)
(* JSON object, number "int" when its day_number is an integer and "str"   *)
(* when it is a string such as "2" (day.day_number then holds the integer  *)
(* the string spells; the value equals no integer and cannot be ordered    *)
(* with one).                                                              *)
(***************************************************************************)
MaxRegens == 2

DayJson(day, number) == [kind |-> "dict", msg |-> "", day |-> day, number |-> number]

\* checks on the regenerated day that stop at the day's own fields
RegenDayError_SkipsActivities(resp) ==
    CASE resp.kind = "raise" -> resp.msg
      [] resp.kind = "text" -> "Expecting value: line 1 column 1 (char 0)"
      [] FirstMissing(resp.day, RequiredDayFields) # "" ->
             "Regenerated day is missing required field: "
                 \o FirstMissing(resp.day, RequiredDayFields)
      [] resp.day.activities.kind # "list" \/ Len(resp.day.activities.items) = 0 ->
             "Activities must be a non-empty list"
      [] OTHER -> ""

\* what the checks on the regenerated day raise, "" if they pass
RegenDayError(resp) ==
    CASE resp.kind = "raise" -> resp.msg
      [] resp.kind = "text" -> "Expecting value: line 1 column 1 (char 0)"
      [] FirstMissing(resp.day, RequiredDayFields) # "" ->
             "Regenerated day is missing required field: "
                 \o FirstMissing(resp.day, RequiredDayFields)
      [] resp.day.activities.kind # "list" \/ Len(resp.day.activities.items) = 0 ->
             "Activities must be a non-empty list"
      [] OTHER -> ValidateActivities(resp.day.activities.items).err

\* the regenerated day once its times have been corrected
RegeneratedDay(resp) ==
    [resp.day EXCEPT !.activities.items = ValidateActivities(@).items]

\* list.sort(key=lambda d: d["day_number"]): stable, ascending
SortByDayNumber(days) ==
    LET place(i) == Cardinality({j \in 1..Len(days) :
                        \/ days[j].day_number < days[i].day_number
                        \/ days[j].day_number = days[i].day_number /\ j < i}) + 1
    IN  [r \in 1..Len(days) |-> days[CHOOSE i \in 1..Len(days) : place(i) = r]]

\* positions the replace loop stops at: the first day equal to day_number,
\* the first day without a day_number (KeyError); 0 if there is none
FirstIn(S) == IF S = {} THEN 0 ELSE CHOOSE i \in S : \A j \in S : i <= j
FirstMatch(days, day_number) ==
    FirstIn({i \in 1..Len(days) : "day_number" \in DOMAIN days[i]
                                     /\ days[i].day_number = day_number})
FirstUnnumbered(days) ==
    FirstIn({i \in 1..Len(days) : "day_number" \notin DOMAIN days[i]})

\* a merge that takes day_number for the position in the list
MergeDay_ByPosition(days, day_number, day, number) ==
    IF day_number <= Len(days)
    THEN [days |-> [days EXCEPT ![day_number] = day], failed |-> FALSE]
    ELSE [days |-> Append(days, day), failed |-> FALSE]

\* [days, failed]: the shared list plan["days"] after the merge, and whether
\* the merge raised.  A sort that raises leaves the appended day in the list.
MergeDay(days, day_number, day, number) ==
    LET m == FirstMatch(days, day_number)
        u == FirstUnnumbered(days)
    IN  IF u # 0 /\ (m = 0 \/ u < m) THEN [days |-> days, failed |-> TRUE]
        ELSE IF m # 0 THEN [days |-> [days EXCEPT ![m] = day], failed |-> FALSE]
        ELSE IF number = "str" /\ Len(days) > 0
        THEN [days |-> Append(days, day), failed |-> TRUE]
        ELSE [days |-> SortByDayNumber(Append(days, day)), failed |-> FALSE]

\* [ret, held, failed]: the plan returned, the caller's plan afterwards, and
\* whether the except branch was taken; plan.copy() copies the top-level
\* dict only, so the merge works on the caller's list
regenerate_travel_plan_day(plan, day_number, resp) ==
    IF RegenDayError(resp) # "" THEN [ret |-> plan, held |-> plan, failed |-> TRUE]
    ELSE IF "days" \notin DOMAIN plan \/ plan.days.kind # "list"
    THEN [ret |-> plan, held |-> plan, failed |-> TRUE]
    ELSE LET r == MergeDay(plan.days.items, day_number, RegeneratedDay(resp), resp.number)
             after == [plan EXCEPT !.days.items = r.days]
         IN  [ret |-> after, held |-> after, failed |-> r.failed]

(***************************************************************************)
(* A caller holding a plan and regenerating days of it, one call after     *)
(* the other, each on the plan the call before returned.                   *)
(***************************************************************************)
\* a day the Model Client returns for day n
NewDayFor(n) ==
    [day_number |-> n, description |-> "Regenerated", reminder |-> "Book ahead",
     activities |-> List(<<[FullActivity EXCEPT !.start_at = Time(25, 99)]>>)]

RegenResponses ==
    { [kind |-> "raise", msg |-> "Connection timed out", day |-> EmptyDict, number |-> "int"],
      [kind |-> "text", msg |-> "", day |-> EmptyDict, number |-> "int"],
      DayJson(DayNoActivities, "int"),
      DayJson(DayNoLocation, "int"),
      DayJson([FullDay(1) EXCEPT !.activities =
                  List(<<FullActivity, NoLocationActivity>>)], "int"),
      DayJson([FullDay(1) EXCEPT !.activities = List(<<>>)], "int"),
      DayJson([FullDay(1) EXCEPT !.activities = EmptyNonList], "int") }
        \cup { DayJson(NewDayFor(n), number) :
                  n \in 1..(MaxDuration + 1), number \in {"int", "str"} }

\* the plans a caller passes: plans of successful runs, and plans that make
\* the merge fail (a day without day_number, days missing or not a list)
RegenPlans ==
    { FullPlan(k) : k \in 1..MaxDuration }
        \cup { MisnumberedPlan,
                [FullPlan(1) EXCEPT !.days = List(<<FullDay(2), FullDay(1)>>)],
                [FullPlan(1) EXCEPT !.days = List(<<FullDay(1), BareDay>>)],
                [FullPlan(1) EXCEPT !.days = List(<<BareDay, FullDay(2)>>)],
                [FullPlan(1) EXCEPT !.days = EmptyNonList],
                Del(FullPlan(1), "days") }

NoRegenResponse == [kind |-> "none", msg |-> "", day |-> EmptyDict, number |-> "int"]

RegenInit ==
    /\ env \in Envs
    /\ mockDays = MOCK_DAYS
    /\ pc = "idle"
    /\ state = InitialState("", 1, "")
    /\ genSteps = 0
    /\ valSteps = 0
    /\ modelCalls = 0
    /\ raisedCalls = 0
    /\ lastResp = NoResponse
    /\ handed = EmptyDict
    /\ rplan \in RegenPlans
    /\ rbefore = EmptyDict
    /\ rret = EmptyDict
    /\ rargs = [day_number |-> 0, resp |-> NoRegenResponse]
    /\ rfailed = FALSE
    /\ rcalls = 0
    /\ AccessIdle
    /\ ApiIdle

\* one call; the caller goes on with the plan it got back.  No further call
\* is explored once a string day_number may have entered the plan.
Regenerate ==
    /\ rcalls < MaxRegens
    /\ rargs.resp.number = "int"
    /\ \E day_number \in 1..(MaxDuration + 1), resp \in RegenResponses :
           LET r == regenerate_travel_plan_day(rplan, day_number, resp)
           IN  /\ rbefore' = rplan
               /\ rplan' = r.held
               /\ rret' = r.ret
               /\ rfailed' = r.failed
               /\ rargs' = [day_number |-> day_number, resp |-> resp]
    /\ rcalls' = rcalls + 1
    /\ UNCHANGED <<graphVars, accessVars, apiVars>>

RegenNext == Regenerate

RegenSpec == RegenInit /\ [][RegenNext]_vars

(***************************************************************************)
(* Roles, features and plan limits: models/role_permissions.py and the     *)
(* dependencies of dependencies/role_checker.py, for one signed-in user.   *)
(***************************************************************************)
\* plans a user is followed up to
MaxPlansHeld == 3

\* UserRole
Roles == {"free", "subscriber", "premium", "tester", "admin"}

\* RolePermissions.get_travel_plan_limits(), the keys the checks read;
\* max_plans -1 is "unlimited"
get_travel_plan_limits ==
    [r \in Roles |->
        CASE r = "free" ->
               [max_plans |-> 2, can_regenerate_days |-> FALSE,
                features |-> {"basic_planning", "view_plans", "basic_suggestions"}]
          [] r = "subscriber" ->
               [max_plans |-> 5, can_regenerate_days |-> TRUE,
                features |-> {"basic_planning", "view_plans", "basic_suggestions",
                              "regenerate_days", "export_plans"}]
          [] r = "premium" ->
               [max_plans |-> 10, can_regenerate_days |-> TRUE,
                features |-> {"basic_planning", "view_plans", "advanced_suggestions",
                              "regenerate_days", "export_plans",
                              "collaborative_planning", "priority_support"}]
          [] r = "tester" ->
               [max_plans |-> 20, can_regenerate_days |-> TRUE,
                features |-> {"basic_planning", "view_plans", "advanced_suggestions",
                              "regenerate_days", "export_plans",
                              "collaborative_planning", "beta_features", "debug_mode"}]
          [] r = "admin" ->
               [max_plans |-> -1, can_regenerate_days |-> TRUE,
                features |-> {"basic_planning", "view_plans", "advanced_suggestions",
                              "regenerate_days", "export_plans",
                              "collaborative_planning", "user_management",
                              "system_settings", "analytics", "all_features"}]]

\* the keys of get_feature_descriptions()
Features == UNION {get_travel_plan_limits[r].features : r \in Roles}

\* feature in limits.get(role, {}).get("features", [])
has_feature(r, feature) ==
    IF r \in DOMAIN get_travel_plan_limits
    THEN feature \in get_travel_plan_limits[r].features
    ELSE FALSE

\* limit_checker: whether the dependency lets the request through (it
\* returns current_user whatever the operation, the role and the count)
check_plan_limits(operation, r, n) == TRUE

\* feature names a caller may ask about: the listed ones, and names the
\* tests use that no role lists
AskedFeatures == Features \cup {"create_plan", "nonexistent_feature"}

AccessInit ==
    /\ env \in Envs
    /\ mockDays = MOCK_DAYS
    /\ pc = "idle"
    /\ state = InitialState("", 1, "")
    /\ genSteps = 0
    /\ valSteps = 0
    /\ modelCalls = 0
    /\ raisedCalls = 0
    /\ lastResp = NoResponse
    /\ handed = EmptyDict
    /\ RegenIdle
    /\ role \in Roles
    /\ planCount = 0
    /\ asked = ""
    /\ granted = FALSE
    /\ ApiIdle

\* RolePermissions.has_feature(current_user.role, feature)
AskFeature ==
    /\ \E feature \in AskedFeatures :
           /\ asked' = feature
           /\ granted' = has_feature(role, feature)
    /\ UNCHANGED <<role, planCount, graphVars, regenVars, apiVars>>

\* a plan creation behind Depends(check_plan_limits("create_plan")): the
\* plan is saved when the dependency lets the request through
CreatePlan ==
    /\ planCount < MaxPlansHeld
    /\ check_plan_limits("create_plan", role, planCount)
    /\ planCount' = planCount + 1
    /\ UNCHANGED <<role, asked, granted, graphVars, regenVars, apiVars>>

\* DELETE /travel-plans/{id}
DeletePlan ==
    /\ planCount > 0
    /\ planCount' = planCount - 1
    /\ UNCHANGED <<role, asked, granted, graphVars, regenVars, apiVars>>

AccessNext == AskFeature \/ CreatePlan \/ DeletePlan

AccessSpec == AccessInit /\ [][AccessNext]_vars

(***************************************************************************)
(* Properties                                                              *)
(***************************************************************************)
InRun == pc \in {"generate", "validate", "route", "done"}
Generated == pc \in {"validate", "route", "done"}
FallbackOff == env # "test"
PlanDays == DaysOf(state.plan, mockDays)

HasAll(d, fields) == \A i \in 1..Len(fields) : fields[i] \in DOMAIN d

\* every structural requirement of the validator, read off a plan
StructurallyValid(plan) ==
    /\ HasAll(plan, RequiredFields)
    /\ plan.days.kind = "list"
    /\ Len(plan.days.items) > 0
    /\ \A i \in 1..Len(plan.days.items) :
          LET day == plan.days.items[i]
          IN  /\ HasAll(day, RequiredDayFields)
              /\ day.activities.kind = "list"
              /\ \A k \in 1..Len(day.activities.items) :
                    HasAll(day.activities.items[k], RequiredActivityFields)

\* C1: a run takes at most 4 generate steps and at most 4 validate steps,
\* whatever the Model Client answers.
C1_BoundedAttempts ==
    InRun => genSteps <= MaxRetries + 1 /\ valSteps <= MaxRetries + 1

\* C2: every generate/validate cycle that ended with an error has consumed a
\* retry: when routing sees an error after n cycles, retry_count is at least n.
C2_ErrorConsumesRetry ==
    (pc = "route" /\ state.error # "") => state.retry_count >= genSteps

\* what is left of an all-raising run: retries not yet used, then the steps
\* to the next generate step or to the end
Rank ==
    3 * (MaxRetries - state.retry_count)
        + (CASE pc = "validate" -> 3 [] pc = "route" -> 2
             [] pc = "generate" -> 1 [] OTHER -> 0)

\* C3: with the fallback off and every Model Client call raising, there is no
\* 4th call, every step of the run brings its end nearer (so it ends), and it
\* ends in failure with retry_count = 3.
C3_AllRaise ==
    /\ [](FallbackOff /\ InRun /\ raisedCalls = modelCalls =>
            /\ modelCalls <= 3
            /\ Rank >= 0
            /\ pc = "done" =>
                  state.error # "" /\ state.retry_count = 3 /\ modelCalls = 3)
    /\ [][FallbackOff /\ InRun /\ pc # "done" /\ raisedCalls' = modelCalls'
             => Rank' < Rank]_vars

C3_Witness ==
    /\ FallbackOff /\ pc = "done"
    /\ modelCalls = 3 /\ raisedCalls = 3
    /\ state.error # "" /\ state.retry_count = 3

\* the run has made one Model Client call and it returned a well-formed plan
FirstCallWellFormed == modelCalls = 1 /\ lastResp \in WellFormedResponses

\* C4: a well-formed plan on the first call ends the run in success after
\* exactly one generate step and one validate step, with retry_count = 0,
\* error empty and the plan set.
C4_FirstCallSuccess ==
    /\ [](Generated /\ FirstCallWellFormed =>
            /\ genSteps = 1
            /\ state.error = "" /\ state.retry_count = 0
            /\ state.plan # EmptyDict
            /\ pc \in {"route", "done"} => valSteps = 1)
    /\ [][pc = "route" /\ FirstCallWellFormed => pc' = "done"]_vars

C4_Witness ==
    /\ pc = "done" /\ FirstCallWellFormed /\ state.duration > 0
    /\ genSteps = 1 /\ valSteps = 1 /\ state.error = ""
    /\ StructurallyValid(View(state.plan, mockDays))

\* the run has made three Model Client calls: two failed, the last is valid
TwoFailuresThenValid ==
    modelCalls = 3 /\ raisedCalls = 2 /\ lastResp \in WellFormedResponses

\* C5: two failing Model Client calls are followed by a third call, and when
\* that call returns a valid plan the run ends in success with
\* retry_count = 2 and error empty.
C5_TwoFailuresThenSuccess ==
    /\ [](Generated /\ TwoFailuresThenValid =>
            state.retry_count = 2 /\ state.error = "" /\ state.plan # EmptyDict)
    /\ [][pc = "route" /\ modelCalls = 2 /\ raisedCalls = 2 => pc' = "generate"]_vars
    /\ [][pc = "route" /\ TwoFailuresThenValid => pc' = "done"]_vars

C5_Witness ==
    /\ pc = "done" /\ TwoFailuresThenValid
    /\ state.retry_count = 2 /\ state.error = ""

\* C6: a run ends either with an empty error and a plan that meets every
\* structural requirement of the validator, or with an error and
\* retry_count >= 3.
C6_TerminalStates ==
    pc = "done" =>
        \/ state.error = "" /\ state.plan # EmptyDict
              /\ StructurallyValid(View(state.plan, mockDays))
        \/ state.error # "" /\ state.retry_count >= MaxRetries

C6_Witness ==
    /\ pc = "done" /\ state.error = ""
    /\ raisedCalls = 1 /\ modelCalls = 3
    /\ lastResp = Json(BarePlan(2))

\* the plan carries what the response carried: same top-level values, same
\* days, same day fields, same activities (times apart, which may be corrected)
SameButTimes(a, b) == Del(Del(a, "start_at"), "end_at") = Del(Del(b, "start_at"), "end_at")

BuiltFrom(plan, resp, st) ==
    /\ resp.kind = "dict"
    /\ plan.days.kind = "list"
    /\ LET norm == NormalizePlan(resp.plan, st)
       IN  /\ Del(plan, "days") = Del(norm, "days")
           /\ Len(plan.days.items) = Len(norm.days.items)
           /\ \A i \in 1..Len(plan.days.items) :
                 LET d == plan.days.items[i]
                     n == norm.days.items[i]
                 IN  /\ Del(d, "activities") = Del(n, "activities")
                     /\ Len(d.activities.items) = Len(n.activities.items)
                     /\ \A k \in 1..Len(d.activities.items) :
                           SameButTimes(d.activities.items[k], n.activities.items[k])

\* C7: with settings.env different from 'test' the canned plan is never
\* substituted: a successful run's plan was built from its last Model Client
\* response, the shared fallback data is untouched, and a run at the retry
\* cap ends in failure.
C7_NoSilentFallback ==
    (FallbackOff /\ pc = "done") =>
        /\ state.error = "" => BuiltFrom(state.plan, lastResp, state)
        /\ state.retry_count >= MaxRetries => state.error # ""
        /\ mockDays = MOCK_DAYS

C7_Witness ==
    /\ FallbackOff /\ pc = "done"
    /\ state.error = "" /\ state.retry_count = 2
    /\ BuiltFrom(state.plan, lastResp, state)

\* C8: no step changes a plan already handed to a caller, nor the module-level
\* fallback data.
C8_NoSharedState ==
    [][/\ handed' = handed => View(handed, mockDays') = View(handed, mockDays)
       /\ mockDays' = mockDays]_vars

\* C9: in fallback mode a run that reached the retry cap ends in success with
\* exactly `duration` days numbered 1..duration in order, whatever runs came
\* before it.
C9_FallbackDayCount ==
    (env = "test" /\ pc = "done" /\ state.retry_count >= MaxRetries) =>
        /\ state.error = ""
        /\ Len(PlanDays) = state.duration
        /\ \A i \in 1..Len(PlanDays) : PlanDays[i].day_number = i

\* a 1-day fallback plan cut out of a shared list that an earlier run has padded
C9_Witness ==
    /\ env = "test" /\ pc = "done" /\ state.retry_count = MaxRetries
    /\ state.duration = 1 /\ Len(mockDays) > 2
    /\ state.error = "" /\ Len(PlanDays) = 1

\* C10: a plan returned in success for duration d has exactly d days.
C10_DayCountMatchesDuration ==
    (pc = "done" /\ state.error = "") => Len(PlanDays) = state.duration

\* C11: every plan of a run that ended in success has a non-empty list of days
\* whose day_number at position i is i.
C11_DaysNumberedInOrder ==
    (pc = "done" /\ state.error = "") =>
        /\ Len(PlanDays) > 0
        /\ \A i \in 1..Len(PlanDays) : PlanDays[i].day_number = i

\* the validate step is about to run on a plan that has every required field
ValidatesCleanly ==
    pc = "validate" /\ state.error = "" /\ StructurallyValid(state.plan)

ActivityAt(plan, i, k) == plan.days.items[i].activities.items[k]

\* Q(before, after) for every activity of the state's plan across a step
EachActivity(Q(_, _)) ==
    \A i \in 1..Len(state.plan.days.items) :
        \A k \in 1..Len(state.plan.days.items[i].activities.items) :
            Q(ActivityAt(state.plan, i, k), ActivityAt(state'.plan, i, k))

C12_PairAfter(a, b) ==
    ~ParsesAsTime(a.start_at) => b.start_at = Time(9, 0) /\ b.end_at = Time(11, 0)

\* C12 as stated: an activity whose start_at does not parse leaves the validate
\* step, without an error, as start_at = 09:00 and end_at = 11:00 whatever its
\* end_at was.
C12_DefaultPair ==
    [][ValidatesCleanly => state'.error = "" /\ EachActivity(C12_PairAfter)]_vars

C12_EachAfter(a, b) ==
    ~ParsesAsTime(a.start_at) =>
        /\ b.start_at = Time(9, 0)
        /\ b.end_at = IF ParsesAsTime(a.end_at) THEN a.end_at ELSE Time(11, 0)
        /\ SameButTimes(a, b)

\* C12 amended: an activity whose start_at does not parse leaves the validate
\* step, without an error, with start_at = 09:00; its end_at is 11:00 when
\* end_at did not parse either and is otherwise left as it was.
C12_EachTimeOnItsOwn ==
    [][ValidatesCleanly => state'.error = "" /\ EachActivity(C12_EachAfter)]_vars

\* start_at "25:99" was replaced and end_at "09:30" was kept
C12_Witness ==
    /\ pc = "route" /\ valSteps = 1 /\ state.error = ""
    /\ state.plan # EmptyDict /\ StructurallyValid(state.plan)
    /\ Len(state.plan.days.items[1].activities.items) = 1
    /\ ActivityAt(state.plan, 1, 1).start_at = Time(9, 0)
    /\ ActivityAt(state.plan, 1, 1).end_at = Time(9, 30)

\* the last regenerate call returned through its try block
RegenSucceeded == rcalls > 0 /\ ~rfailed

\* the last call's day_number is the day_number of a day of the plan it got
RegenDayPresent ==
    /\ "days" \in DOMAIN rbefore /\ rbefore.days.kind = "list"
    /\ FirstMatch(rbefore.days.items, rargs.day_number) # 0

\* C13: when regenerate_travel_plan_day succeeds for a day_number present in
\* the plan, the returned plan has the regenerated day at that day's position
\* and every other day, the order and the number of days are as they were.
C13_ReplacesOneDay ==
    (RegenSucceeded /\ RegenDayPresent) =>
        LET old == rbefore.days.items
            new == rret.days.items
            m == FirstMatch(old, rargs.day_number)
        IN  /\ Del(rret, "days") = Del(rbefore, "days")
            /\ Len(new) = Len(old)
            /\ new[m] = RegeneratedDay(rargs.resp)
            /\ \A i \in 1..Len(old) : i # m => new[i] = old[i]

\* day 1 of a plan whose days are numbered 2, 1 was regenerated
C13_Witness ==
    /\ RegenSucceeded /\ RegenDayPresent
    /\ rargs.day_number = 1
    /\ rbefore.days.items = <<FullDay(2), FullDay(1)>>
    /\ rret.days.items[1] = FullDay(2)
    /\ rret.days.items[2].description = "Regenerated"
    /\ ActivityAt(rret, 2, 1).start_at = Time(9, 0)

\* the last regenerate call went through its except branch
RegenFailed == rcalls > 0 /\ rfailed

\* C14: when any step of regenerate_travel_plan_day fails, the plan it returns
\* is the input plan as it was before the call.
C14_FailureReturnsInput ==
    RegenFailed => rret = rbefore

\* the generate step has just normalized the plan of the Model Client's answer
JustNormalized ==
    /\ pc = "validate" /\ genSteps = 1
    /\ lastResp.kind = "dict" /\ RaisedBy(lastResp) = "none"

\* C15: the Plan Normalizer is idempotent: normalizing a plan it has
\* normalized raises nothing and gives the same plan.
C15_NormalizerIdempotent ==
    JustNormalized =>
        /\ ~NormalizeRaises(state.plan)
        /\ NormalizePlan(state.plan, state) = state.plan

\* a bare plan with a legacy "time" pair went through the normalizer
C15_Witness ==
    /\ JustNormalized
    /\ lastResp = Json([days |-> List(<<BareDay>>)])
    /\ state.plan.title = TripTitle(state)
    /\ state.plan.days.items[1].day_number = 1
    /\ ActivityAt(state.plan, 1, 1).start_at = Time(12, 0)
    /\ "time" \notin DOMAIN ActivityAt(state.plan, 1, 1)

\* C16: should_retry returns 'end' exactly when error is empty, 'max_retries'
\* exactly when error is non-empty and retry_count >= 3, 'retry' exactly when
\* error is non-empty and retry_count < 3; the graph ends the run on 'end' and
\* 'max_retries' and goes back to the generate step on 'retry'.
C16_Routing ==
    /\ [](pc = "route" =>
            /\ should_retry(state) = "end" <=> state.error = ""
            /\ should_retry(state) = "max_retries" <=>
                   (state.error # "" /\ state.retry_count >= 3)
            /\ should_retry(state) = "retry" <=>
                   (state.error # "" /\ state.retry_count < 3))
    /\ [][pc = "route" =>
             pc' = IF state.error # "" /\ state.retry_count < 3
                   THEN "generate" ELSE "done"]_vars

\* a run routed back to generate three times (one of them after a validation
\* failure) and ended at the cap
C16_Witness ==
    /\ pc = "done" /\ genSteps = 4 /\ valSteps = 4
    /\ state.error # "" /\ state.retry_count = 3

\* the role order of the claim, lowest first
RoleOrder == <<"free", "subscriber", "premium", "admin">>

\* C17: a feature has_feature grants to a role is granted to every higher
\* role of free < subscriber < premium < admin, and has_feature is False for
\* a feature no role lists.
C17_FeaturesMonotone ==
    asked # "" =>
        /\ asked \notin Features => ~granted
        /\ \A i, j \in 1..Len(RoleOrder) :
              (i < j /\ role = RoleOrder[i] /\ granted) =>
                  has_feature(RoleOrder[j], asked)

\* C18: no user holds more plans than the role's max_plans (a negative
\* max_plans is no limit).
C18_WithinPlanLimit ==
    get_travel_plan_limits[role].max_plans >= 0 =>
        planCount <= get_travel_plan_limits[role].max_plans

\* the inputs of the request are carried over a step as they are
InputsKept ==
    /\ state'.destination = state.destination
    /\ state'.duration = state.duration
    /\ state'.interests = state.interests

\* C19: with the fallback off, an exception inside the generate step is caught
\* in the step: the step ends, and the state it returns has retry_count one
\* larger than on entry, error set to the exception's message, an empty plan
\* and the same destination, duration and interests.
C19_ExceptionCaught ==
    [][(FallbackOff /\ pc = "generate" /\ raisedCalls' = raisedCalls + 1) =>
          /\ pc' = "validate"
          /\ state'.retry_count = state.retry_count + 1
          /\ state'.error = RaisedBy(lastResp')
          /\ state'.plan = EmptyDict
          /\ InputsKept]_vars

\* json.loads raised on the third attempt of a state that still held a plan
C19_Witness ==
    /\ FallbackOff /\ pc = "validate" /\ raisedCalls = 1
    /\ lastResp.kind = "text"
    /\ state.retry_count = 3 /\ state.plan = EmptyDict
    /\ state.error = "Expecting value: line 1 column 1 (char 0)"

\* msg names a field that the plan, one of its days or one of its activities
\* lacks, or the list that is not one
NamesFlaw(plan, msg) ==
    IF ~HasAll(plan, RequiredFields)
    THEN \E f \in SetOf(RequiredFields) :
             f \notin DOMAIN plan /\ msg = "Travel plan is missing required field: " \o f
    ELSE IF plan.days.kind # "list" \/ Len(plan.days.items) = 0
    THEN msg = "Travel plan days must be a non-empty list"
    ELSE \E i \in 1..Len(plan.days.items) :
             LET day == plan.days.items[i]
             IN  IF ~HasAll(day, RequiredDayFields)
                 THEN \E f \in SetOf(RequiredDayFields) :
                          f \notin DOMAIN day
                              /\ msg = "Day is missing required field: " \o f
                 ELSE IF day.activities.kind # "list"
                 THEN msg = "Activities must be a list"
                 ELSE \E k \in 1..Len(day.activities.items) :
                          \E f \in SetOf(RequiredActivityFields) :
                              /\ f \notin DOMAIN day.activities.items[k]
                              /\ msg = "Activity is missing required field: " \o f

AllTimesParse(plan) ==
    \A i \in 1..Len(plan.days.items) :
        \A k \in 1..Len(plan.days.items[i].activities.items) :
            /\ ParsesAsTime(ActivityAt(plan, i, k).start_at)
            /\ ParsesAsTime(ActivityAt(plan, i, k).end_at)

\* C21: after the validate step returned with an empty error, every activity
\* of every day of the plan has a start_at and an end_at that parse as HH:MM
\* with hour in 0..23 and minute in 0..59.
C21_TimesValidAfterValidate ==
    (pc = "route" /\ state.error = "") => AllTimesParse(View(state.plan, mockDays))

\* start_at "09:30" was kept and end_at "morning" was replaced
C21_Witness ==
    /\ pc = "route" /\ valSteps = 1 /\ state.error = ""
    /\ state.plan.days.kind = "list"
    /\ Len(state.plan.days.items) = 1
    /\ Len(state.plan.days.items[1].activities.items) = 1
    /\ ActivityAt(state.plan, 1, 1).start_at = Time(9, 30)
    /\ ActivityAt(state.plan, 1, 1).end_at = Time(11, 0)
    /\ AllTimesParse(state.plan)

\* the days of an accepted answer whose activities the normalizer walks
\* through: positions i with a list of activities
WalkedDays(plan) ==
    IF plan.days.kind # "list" THEN {}
    ELSE {i \in 1..Len(plan.days.items) :
             /\ "activities" \in DOMAIN plan.days.items[i]
             /\ plan.days.items[i].activities.kind = "list"}

\* Q(before, after) for every activity of the Model Client's plan and what
\* the generate step made of it
EachNormalized(Q(_, _)) ==
    \A i \in WalkedDays(lastResp.plan) :
        /\ Len(state.plan.days.items[i].activities.items)
              = Len(lastResp.plan.days.items[i].activities.items)
        /\ \A k \in 1..Len(lastResp.plan.days.items[i].activities.items) :
              Q(ActivityAt(lastResp.plan, i, k), ActivityAt(state.plan, i, k))

C22_After(a, b) ==
    /\ "start_at" \in DOMAIN b /\ "end_at" \in DOMAIN b /\ "time" \notin DOMAIN b
    /\ ("start_at" \notin DOMAIN a \/ "end_at" \notin DOMAIN a) =>
          IF "time" \in DOMAIN a /\ Len(a.time) = 2
          THEN b.start_at = a.time[1] /\ b.end_at = a.time[2]
          ELSE b.start_at = Time(9, 0) /\ b.end_at = Time(11, 0)

C23_InputUntouched ==
    RegenSucceeded => rplan = rbefore

\* the last regenerate call got a JSON object from the Model Client
RegenGotDay == rcalls > 0 /\ rargs.resp.kind = "dict"

\* C24 as stated: regenerate_travel_plan_day accepts a single-day response
\* exactly when the Plan Validator accepts that day inside a plan.
C24_SameAcceptance ==
    RegenGotDay => (RegenDayError(rargs.resp) = "" <=> DayError(rargs.resp.day) = "")

\* C24 amended: regenerate_travel_plan_day accepts a single-day response
\* exactly when the Plan Validator accepts that day inside a plan and the
\* day's activities list is not empty; on an accepted day it makes the same
\* time corrections as the Plan Validator.
C24_SameButNonEmpty ==
    RegenGotDay =>
        /\ RegenDayError(rargs.resp) = "" <=>
              (DayError(rargs.resp.day) = ""
                  /\ Len(rargs.resp.day.activities.items) > 0)
        /\ RegenDayError(rargs.resp) = "" =>
              RegeneratedDay(rargs.resp) = CheckedDay(rargs.resp.day)

\* a day with an out-of-range start_at was accepted, corrected as the
\* validator corrects it, and put into the plan
C24_Witness ==
    /\ RegenGotDay /\ RegenSucceeded
    /\ rargs.day_number = 1 /\ rargs.resp = DayJson(NewDayFor(1), "int")
    /\ DayError(rargs.resp.day) = ""
    /\ rret.days.items[1] = CheckedDay(rargs.resp.day)
    /\ ActivityAt(rret, 1, 1).start_at = Time(9, 0)

\* the days all carry a day_number and the numbers grow strictly
Ascending(days) ==
    /\ \A i \in 1..Len(days) : "day_number" \in DOMAIN days[i]
    /\ \A i, j \in 1..Len(days) : i < j => days[i].day_number < days[j].day_number

\* C27: after a successful regenerate_travel_plan_day(plan, n, ...) on a plan
\* whose day_numbers are distinct and ascending, the returned plan has exactly
\* one day with day_number = n and its day_numbers are still distinct and
\* ascending, whatever integer day_number the Model Client answered.
C27_DayNumbersKept ==
    (RegenSucceeded /\ Ascending(rbefore.days.items) /\ rargs.resp.number = "int") =>
        /\ Ascending(rret.days.items)
        /\ Cardinality({i \in 1..Len(rret.days.items) :
                           rret.days.items[i].day_number = rargs.day_number}) = 1

\* every key of before is a key of after with the same value, the keys in
\* skip apart
KeepsFields(before, after, skip) ==
    \A f \in DOMAIN before \ skip : f \in DOMAIN after /\ after[f] = before[f]

C28_After(a, b) == KeepsFields(a, b, {"time"})

C29_ReplyFromRun ==
    reply.status = 200 =>
        /\ reply.destination = request.destination
        /\ reply.duration = request.duration
        /\ genSteps > 0 /\ valSteps > 0
        /\ state.destination = request.destination
        /\ state.duration = request.duration
        /\ state.error = "" /\ reply.plan = state.plan

\* C25: in a run started with retry_count = 0, retry_count stays within 0..3
\* and no step decreases it: a generate step that raised adds exactly 1, a
\* generate step that did not raise and the validate step leave it as it is.
C25_RetryCountMonotone ==
    /\ [](InRun => state.retry_count \in 0..3)
    /\ [][pc = "generate" =>
             (state'.retry_count =
                 IF raisedCalls' > raisedCalls THEN state.retry_count + 1
                 ELSE state.retry_count)]_vars
    /\ [][(pc = "validate" \/ pc = "route" \/ pc = "done") =>
             (state'.retry_count = state.retry_count)]_vars

\* three generate steps of which one raised
C25_Witness ==
    /\ pc = "route" /\ genSteps = 3 /\ raisedCalls = 1
    /\ state.retry_count = 1 /\ state.error # ""

\* C26: with the fallback off, a run that ended in failure has an empty plan
\* and retry_count exactly 3, and its last generate step raised.
C26_FailureLeavesNoPlan ==
    (FallbackOff /\ pc = "done" /\ state.error # "") =>
        /\ state.plan = EmptyDict
        /\ state.retry_count = 3
        /\ lastResp \in RaisingResponses

\* the third exception had an empty message: the error of the end state is
\* the validate step's, the plan is empty all the same
C26_Witness ==
    /\ FallbackOff /\ pc = "done" /\ lastResp = Raise("")
    /\ state.error = "Travel plan is missing required field: title"
    /\ state.plan = EmptyDict /\ state.retry_count = 3

\* C30: in a run started with retry_count = 0 the generate step is never
\* entered with retry_count >= 3, so its cap branch is never taken: every
\* generate step of the run called the Model Client.
C30_CapBranchUnreachable ==
    /\ pc = "generate" => state.retry_count < 3
    /\ InRun => modelCalls = genSteps

\* a run that reached retry_count = 3 on its third generate step and ended
\* there, in fallback mode without an error
C30_Witness ==
    /\ env = "test" /\ pc = "done" /\ state.error = ""
    /\ state.retry_count = 3 /\ genSteps = 3 /\ modelCalls = 3
====
